---- MODULE Spec2Model ----
(***************************************************************************)
(* Density estimation and Monte Carlo ridge fitting of fidanka             *)
(* (src/src/fidanka/fiducial/fiducial.py).                                 *)
(*                                                                         *)
(* Numbers are rationals <<n, d>> in lowest terms with d > 0, so equal     *)
(* values are equal tuples.  The results of numpy's floating-point         *)
(* arithmetic are rounded to the nearest binary floating-point number of   *)
(* MantissaBits significant bits, ties to even; Qhull's geometry is exact. *)
(* Photometry is integral.                                                 *)
(***************************************************************************)
EXTENDS Integers, Sequences, FiniteSets

(***************************************************************************)
(* Bounds of the model.                                                    *)
(***************************************************************************)
\* largest mcruns handed to MC_convex_hull_density_approximation
MaxRunsDensity == 3
\* largest mcruns handed to measure_fiducial_lines
MaxRunsFiducial == 2
\* largest nPops
MaxPops == 2
\* significant bits of a floating-point number
MantissaBits == 8

(***************************************************************************)
(* Rational arithmetic.                                                    *)
(***************************************************************************)
Abs(a) == IF a < 0 THEN -a ELSE a

RECURSIVE GCD(_, _)
GCD(a, b) ==
    IF b = 0 THEN a ELSE CHOOSE g \in {GCD(b, r) : r \in {a % b}} : TRUE

Rat(n, d) ==
    LET g == GCD(Abs(n), Abs(d))
        s == IF d < 0 THEN -1 ELSE 1
    IN  <<(s * n) \div g, (s * d) \div g>>

RInt(n) == <<n, 1>>
RZero == <<0, 1>>
\* a and b brought over the least common denominator, g being the greatest
\* common divisor of their denominators
Over(a, b, g) == <<a[1] * (b[2] \div g), b[1] * (a[2] \div g), (a[2] \div g) * b[2]>>
Common(a, b) ==
    IF b[2] % a[2] = 0 THEN Over(a, b, a[2])
    ELSE IF a[2] % b[2] = 0 THEN Over(a, b, b[2])
    ELSE Over(a, b, GCD(a[2], b[2]))
Sum(c) == Rat(c[1] + c[2], c[3])
Difference(c) == Rat(c[1] - c[2], c[3])

RAdd(a, b) == Sum(Common(a, b))
RSub(a, b) == Difference(Common(a, b))
RMul(a, b) == Rat(a[1] * b[1], a[2] * b[2])
RDiv(a, b) == Rat(a[1] * b[2], a[2] * b[1])
Less(c) == c[1] < c[2]
RLt(a, b) == Less(Common(a, b))
RLe(a, b) == ~Less(Common(b, a))

(***************************************************************************)
(* Floating-point rounding: the value is scaled by powers of two until its *)
(* integer part has MantissaBits bits, rounded half to even, scaled back.  *)
(***************************************************************************)
RECURSIVE Pow2(_)
Pow2(e) == IF e = 0 THEN 1 ELSE 2 * Pow2(e - 1)

\* the significands lie in [MantissaLow, MantissaTop)
MantissaTop == Pow2(MantissaBits)
MantissaLow == Pow2(MantissaBits - 1)

\* <<num, den, e>> with num / den in [MantissaLow, MantissaTop) and
\* num / den * 2^e the value scaled
RECURSIVE Scaled(_, _, _)
Scaled(num, den, e) ==
    IF num >= den * MantissaTop THEN Scaled(num, 2 * den, e + 1)
    ELSE IF num < den * MantissaLow THEN Scaled(2 * num, den, e - 1)
    ELSE <<num, den, e>>

RoundHalfEven(num, den) ==
    IF 2 * (num % den) > den \/ (2 * (num % den) = den /\ (num \div den) % 2 = 1)
    THEN num \div den + 1
    ELSE num \div den

Unscaled(m, e) == IF e >= 0 THEN Rat(m * Pow2(e), 1) ELSE Rat(m, Pow2(-e))

\* the scaled value s, taken once, rounded and scaled back
Rounded(sign, s) ==
    CHOOSE r \in {Unscaled(sign * RoundHalfEven(t[1], t[2]), t[3]) : t \in {s}} :
        TRUE

\* a value that needs no rounding: a fraction in lowest terms with a
\* significand below MantissaTop over a power of two
PowersOfTwo == {Pow2(e) : e \in 0..(2 * MantissaBits)}
Representable(q) == Abs(q[1]) < MantissaTop /\ q[2] \in PowersOfTwo

Nearest(q) ==
    IF Representable(q) THEN q
    ELSE Rounded(IF q[1] < 0 THEN -1 ELSE 1, Scaled(Abs(q[1]), q[2], 0))

\* the float nearest to q, q taken once
Fl(q) == CHOOSE r \in {Nearest(v) : v \in {q}} : TRUE

FAdd(a, b) == Fl(RAdd(a, b))
FSub(a, b) == Fl(RSub(a, b))
FMul(a, b) == Fl(RMul(a, b))
FDiv(a, b) == Fl(RDiv(a, b))

Idx(s) == 1..Len(s)
\* a function over 1..n as the sequence of its values
SeqOf(f) == f \o <<>>
SeqMax(s) == CHOOSE m \in {s[i] : i \in Idx(s)} : \A i \in Idx(s) : s[i] <= m
SeqMin(s) == CHOOSE m \in {s[i] : i \in Idx(s)} : \A i \in Idx(s) : m <= s[i]

(***************************************************************************)
(* scipy.spatial.ConvexHull in two dimensions: hull.volume is the area of  *)
(* the hull of the points.  An ordered pair (p, q) is a hull edge when     *)
(* every other point lies strictly to its left, or on the segment pq.      *)
(* Qhull raises when the points span no area.                              *)
(***************************************************************************)
Cross(o, a, b) ==
    RSub(RMul(RSub(a[1], o[1]), RSub(b[2], o[2])),
         RMul(RSub(a[2], o[2]), RSub(b[1], o[1])))

OnSegment(p, q, r) ==
    RLe(RZero, RAdd(RMul(RSub(r[1], p[1]), RSub(q[1], r[1])),
                    RMul(RSub(r[2], p[2]), RSub(q[2], r[2]))))

HullEdges(P) ==
    {e \in P \X P :
        /\ e[1] # e[2]
        /\ \A r \in P \ {e[1], e[2]} :
              LET c == Cross(e[1], e[2], r)
              IN  RLt(RZero, c) \/ (c = RZero /\ OnSegment(e[1], e[2], r))}

RECURSIVE SumShoelace(_)
SumShoelace(E) ==
    IF E = {} THEN RZero
    ELSE LET e == CHOOSE x \in E : TRUE
         IN  RAdd(RSub(RMul(e[1][1], e[2][2]), RMul(e[2][1], e[1][2])),
                  SumShoelace(E \ {e}))

HullVolume(P) == RDiv(SumShoelace(HullEdges(P)), RInt(2))

(***************************************************************************)
(* instantaious_hull_density: squared Euclidean distances order the points *)
(* as cdist does; argpartition(distance, n)[:n] keeps the n smallest, ties *)
(* taken in index order, and needs n to be an index of the array.          *)
(***************************************************************************)
Dist2(a, b) ==
    RAdd(RMul(RSub(a[1], b[1]), RSub(a[1], b[1])),
         RMul(RSub(a[2], b[2]), RSub(a[2], b[2])))

Before(d, j, i) == RLt(d[j], d[i]) \/ (d[j] = d[i] /\ j < i)

ArgPartition(d, n) ==
    {i \in Idx(d) : Cardinality({j \in Idx(d) : Before(d, j, i)}) < n}

\* line 151-152: Qhull raises on a flat hull, else density = points / volume
HullDensityOf(points, volume) ==
    IF volume = RZero
    THEN [ok |-> FALSE, err |-> "GeometryError", val |-> RZero]
    ELSE [ok |-> TRUE, err |-> "", val |-> FDiv(RInt(points), volume)]

\* the outcome h of lines 151-152 together with the indices kept
Selected(h, partition) ==
    [ok |-> h.ok, err |-> h.err, val |-> h.val, partition |-> partition]

\* lines 150-152 given the indices line 149 kept
HullOfPartition(partition, ri) ==
    Selected(HullDensityOf(Cardinality(partition),
                           HullVolume({ri[j] : j \in partition})),
             partition)

\* a bug: a neighbour count beyond the array clipped to the array
instantaious_hull_density_clipped(i, ri, n) ==
    HullOfPartition(
        ArgPartition(SeqOf([j \in Idx(ri) |-> Dist2(ri[i], ri[j])]), n), ri)

instantaious_hull_density(i, ri, n) ==
    IF n >= Len(ri)
    THEN [ok |-> FALSE, err |-> "ValueError", val |-> RZero, partition |-> {}]
    ELSE HullOfPartition(
             ArgPartition(SeqOf([j \in Idx(ri) |-> Dist2(ri[i], ri[j])]), n),
             ri)

(***************************************************************************)
(* np.median: the middle value of the sorted array, or the mean of the two *)
(* middle values when the length is even.                                  *)
(***************************************************************************)
Sorted(s) ==
    SeqOf([r \in Idx(s) |->
        s[CHOOSE i \in Idx(s) :
            Cardinality({j \in Idx(s) : Before(s, j, i)}) = r - 1]])

Median(s) ==
    LET t == Sorted(s)
        n == Len(s)
    IN  IF n % 2 = 1 THEN t[(n + 1) \div 2]
        ELSE FDiv(FAdd(t[n \div 2], t[n \div 2 + 1]), RInt(2))

NormaliseByMedian(raw) ==
    LET median == Median(raw)
    IN  SeqOf([i \in Idx(raw) |-> FDiv(raw[i], median)])

\* line 192-194: np.apply_along_axis over the rows of r; the first row
\* that raises ends the call
DensityOfEach(r, n) ==
    SeqOf([i \in Idx(r) |-> instantaious_hull_density(i, r, n)])

\* line 195
NormalisedField(each) ==
    IF \E i \in Idx(each) : ~each[i].ok
    THEN [ok |-> FALSE,
          err |-> each[CHOOSE i \in Idx(each) :
                      ~each[i].ok /\ \A j \in 1..(i - 1) : each[j].ok].err,
          val |-> <<>>]
    ELSE [ok |-> TRUE, err |-> "",
          val |-> NormaliseByMedian(SeqOf([i \in Idx(each) |-> each[i].val]))]

hull_density(X, Y, n) ==
    IF Len(X) # Len(Y)
    THEN [ok |-> FALSE, err |-> "ShapeMismatch", val |-> <<>>]
    ELSE NormalisedField(
             DensityOfEach(SeqOf([i \in Idx(X) |-> <<X[i], Y[i]>>]), n))

(***************************************************************************)
(* shape_dimension_check (fidanka.exception): the arrays have one shape.   *)
(***************************************************************************)
shape_dimension_check(a, b) == Len(a) = Len(b)

(***************************************************************************)
(* color_mag_from_filters and shift_photometry_by_error.                   *)
(***************************************************************************)
color_mag_from_filters(filter1, filter2, reverseFilterOrder) ==
    [color |-> SeqOf([i \in Idx(filter1) |-> filter1[i] - filter2[i]]),
     mag   |-> IF reverseFilterOrder THEN filter2 ELSE filter1]

shift_photometry_by_error(phot, err, baseSampling) ==
    SeqOf([i \in Idx(phot) |-> phot[i] + baseSampling[i] * err[i]])

(***************************************************************************)
(* A width coefficient is None, the string "auto", a number, or the        *)
(* non-finite value numpy gives for a division by a zero colour range.     *)
(***************************************************************************)
WcNone == [tag |-> "none", val |-> RZero]
WcAuto == [tag |-> "auto", val |-> RZero]
WcNum(q) == [tag |-> "num", val |-> q]
WcNonFinite == [tag |-> "nonfinite", val |-> RZero]

RangeRatio(mag, color) ==
    LET dm == SeqMax(mag) - SeqMin(mag)
        dc == SeqMax(color) - SeqMin(color)
    IN  IF dc = 0 THEN WcNonFinite ELSE WcNum(Fl(Rat(dm, dc)))

Zeros(n) == SeqOf([i \in 1..n |-> 0])
(***************************************************************************)
(* Inputs of the model: photometric samples of four stars, the standard    *)
(* normal draws of one Monte Carlo run (one value per filter, shared by    *)
(* the stars of the run), and what an existing cache file holds.           *)
(***************************************************************************)
Photometry ==
    { \* every draw of the model leaves three nearest stars off one line
      [filter1 |-> <<0, 3, 5, 9>>, filter2 |-> <<0, 1, 5, 6>>,
       error1 |-> <<1, 0, 0, 0>>, error2 |-> <<0, 0, 1, 0>>],
      \* one of the draws leaves the stars without a colour range
      [filter1 |-> <<0, 2, 4, 6>>, filter2 |-> <<0, 1, 4, 5>>,
       error1 |-> <<1, 0, 0, 0>>, error2 |-> <<0, 0, 1, 0>>],
      \* two draws order the stars differently by density
      [filter1 |-> <<0, 1, 2, 3>>, filter2 |-> <<0, 1, 2, 3>>,
       error1 |-> <<0, 1, 1, 0>>, error2 |-> <<0, 0, 0, 0>>],
      \* the stars lie on one line
      [filter1 |-> <<0, 2, 4, 6>>, filter2 |-> <<0, 1, 2, 3>>,
       error1 |-> <<0, 0, 0, 0>>, error2 |-> <<0, 0, 0, 0>>],
      \* error1 is one star short
      [filter1 |-> <<0, 3, 5, 9>>, filter2 |-> <<0, 1, 5, 6>>,
       error1 |-> <<1, 0, 0>>, error2 |-> <<0, 0, 1, 0>>] }

SamplePairs == {<<1, -1>>, <<-1, 1>>}

RunSamples(n) ==
    {<<SeqOf([j \in 1..n |-> s[1]]), SeqOf([j \in 1..n |-> s[2]])>> :
        s \in SamplePairs}

StoredDensity == SeqOf([i \in 1..4 |-> RInt(1)])

HullPointChoices == {3, 4}

WidthChoices == {WcNone, WcAuto, WcNum(RInt(2))}

\* point clouds handed to hull_density and instantaious_hull_density
Clouds ==
    { \* four points, no two equally far from a third
      [X |-> <<0, 0, 3, 4>>, Y |-> <<0, 3, 1, 2>>],
      \* five points
      [X |-> <<0, 0, 3, 4, 1>>, Y |-> <<0, 3, 1, 2, 5>>],
      \* the first two points coincide
      [X |-> <<0, 0, 3, 4, 1>>, Y |-> <<0, 0, 1, 2, 5>>],
      \* three points off one line
      [X |-> <<0, 0, 3>>, Y |-> <<0, 3, 1>>],
      \* two points
      [X |-> <<0, 3>>, Y |-> <<0, 1>>] }

\* neighbour counts n handed to them
NeighbourChoices == {1, 3, 4}

\* the rows of np.vstack((X, Y)).T
Rows(X, Y) == SeqOf([i \in Idx(X) |-> <<RInt(X[i]), RInt(Y[i])>>])

VARIABLES
    op,            \* the function called: "MC", "MFL", "HD", "IHD" or "RN"
    args,          \* its arguments
    pc,            \* position in the function
    width_coeff,   \* local width_coeff
    baseSampling,  \* local baseSampling: one <<bs[0], bs[1]>> per run
    iRun,          \* iterations of the loop completed
    density,       \* local density
    mcHist,        \* per run of MC_convex_hull_density_approximation:
                   \* tDensity, the coefficient applied, the run's own range
                   \* ratio and the density after folding
    cacheFile,     \* the file cacheDensityName
    calls,         \* counts of random draws, hull_density calls, cache
                   \* reads and cache writes
    result,        \* what the function returned
    err,           \* the exception that ended it
    logging,       \* root logger and warnings hook of the process
    cmd,           \* locals color, mag, vColor and the photometry they
                   \* were made from (f1s, f2s in the loop)
    ff,            \* local ff, the ridge function of the last verticalization
    Eval_mags,     \* local Eval_mags
    fiducial,      \* local fiducial, the line plm returned
    gmm_vert_means,\* local gmm_vert_means of the last pass
    lines,         \* local lines: the accumulators, one per population
    twin,          \* the baseSampling a second call with the same arguments
                   \* draws at line 878, kept until the first pass begins
    df,            \* renormalize's local df: the rows filter1, error1,
                   \* filter2, error2
    neighbor_n,    \* renormalize's local neighbor_n
    diff,          \* renormalize's local diff
    max_diff,      \* renormalize's local max_diff
    arrays         \* arrays under the name of the argument or local that
                   \* first held them: the one mag (magS) names, and those
                   \* written in place so far

mcVars == <<width_coeff, baseSampling, iRun, density, mcHist>>
mflVars == <<logging, cmd, ff, Eval_mags, fiducial, gmm_vert_means, lines,
            twin>>
rnVars == <<df, neighbor_n, diff, max_diff>>

vars == <<op, args, pc, width_coeff, baseSampling, iRun, density, mcHist,
          cacheFile, calls, result, err, logging, cmd, ff, Eval_mags,
          fiducial, gmm_vert_means, lines, twin, df, neighbor_n, diff,
          max_diff, arrays>>

NoFile == [exists |-> FALSE, density |-> <<>>, mcruns |-> 0]
File(d, m) == [exists |-> TRUE, density |-> d, mcruns |-> m]

Unset == [kind |-> "unset", val |-> <<>>]
None == [kind |-> "None", val |-> <<>>]
Returned(k, v) == [kind |-> k, val |-> v]

(***************************************************************************)
(* MC_convex_hull_density_approximation, lines 345-382.                    *)
(***************************************************************************)
\* a bug: a single run counted as a Monte Carlo run
Stochastic_from_one(mcruns) == mcruns >= 1

\* lines 345, 354 and 366: the test that the call perturbs the photometry
Stochastic(mcruns) == mcruns > 1

MC_shapes_ok(filter1, filter2, error1, error2, mcruns) ==
    /\ Stochastic(mcruns) => /\ shape_dimension_check(filter1, error1)
                     /\ shape_dimension_check(filter2, error2)
    /\ shape_dimension_check(filter1, filter2)

\* line 352-353
MC_default_width(w) == IF w.tag = "none" THEN WcNum(RInt(1)) ELSE w

\* line 373-376: the coefficient the loop body applies, which it also
\* stores in width_coeff
MC_width(w, own) == IF w.tag = "auto" THEN own ELSE w

\* a bug: the uniform mean of the runs so far
MC_fold_uniform(i, d, t) ==
    IF i = 0 THEN t
    ELSE SeqOf([j \in Idx(t) |->
             FDiv(FAdd(FMul(RInt(i), d[j]), t[j]), RInt(i + 1))])

\* line 380
MC_fold(i, d, t) ==
    IF i = 0 THEN t
    ELSE SeqOf([j \in Idx(t) |-> FDiv(FAdd(d[j], t[j]), RInt(2))])

\* lines 366-371: the colour and magnitude of the run
MC_run_cmd(bs, filter1, filter2, error1, error2, reverseFilterOrder, mcruns) ==
    IF Stochastic(mcruns)
    THEN color_mag_from_filters(
             shift_photometry_by_error(filter1, error1, bs[1]),
             shift_photometry_by_error(filter2, error2, bs[2]),
             reverseFilterOrder)
    ELSE color_mag_from_filters(filter1, filter2, reverseFilterOrder)

\* line 378
ScaledDensity(color, mag, w, n) ==
    IF w.tag # "num"
    THEN [ok |-> FALSE, err |-> "GeometryError", val |-> <<>>]
    ELSE hull_density(SeqOf([j \in Idx(color) |-> FMul(RInt(color[j]), w.val)]),
                      SeqOf([j \in Idx(mag) |-> RInt(mag[j])]), n)

\* lines 378-380, given the coefficient wc the pass applies and the
\* range ratio own of its colour and magnitude
MC_density_step(i, d, t, wc, own) ==
    [ok |-> t.ok, err |-> t.err, width_coeff |-> wc, own |-> own,
     tDensity |-> t.val,
     density |-> IF t.ok THEN MC_fold(i, d, t.val) ELSE d]

\* lines 373-380
MC_width_step(i, d, w, cm, own, convexHullPoints) ==
    MC_density_step(i, d,
        ScaledDensity(cm.color, cm.mag, MC_width(w, own), convexHullPoints),
        MC_width(w, own), own)

MC_cmd_step(i, d, w, cm, convexHullPoints) ==
    MC_width_step(i, d, w, cm, RangeRatio(cm.mag, cm.color), convexHullPoints)

\* lines 366-380: one pass of the loop body
MC_LoopBody(i, bs, d, w, filter1, filter2, error1, error2, reverseFilterOrder, mcruns, convexHullPoints) ==
    MC_cmd_step(i, d, w,
        MC_run_cmd(bs, filter1, filter2, error1, error2, reverseFilterOrder,
                   mcruns),
        convexHullPoints)

\* the whole function for mcruns = 1, as load_density calls it
MC_single(filter1, filter2, error1, error2, w, reverseFilterOrder, convexHullPoints) ==
    IF ~MC_shapes_ok(filter1, filter2, error1, error2, 1)
    THEN [ok |-> FALSE, err |-> "ShapeMismatch", width_coeff |-> w,
          own |-> w, tDensity |-> <<>>, density |-> <<>>]
    ELSE MC_LoopBody(0, <<Zeros(Len(filter1)), Zeros(Len(filter1))>>, <<>>,
                     MC_default_width(w), filter1, filter2, error1, error2,
                     reverseFilterOrder, 1, convexHullPoints)

\* The array a result of shift_photometry_by_error is held in: line 273
\* adds into a new array, which the callers name f1s and f2s.
shiftedPhot(phot) == IF phot = "filter1" THEN "f1s" ELSE "f2s"

\* line 229: mag is one of the two arrays handed in, not a copy of it
mag_of(filter1, filter2, reverseFilterOrder) ==
    IF reverseFilterOrder THEN filter2 ELSE filter1

\* lines 366-371: the array magS names in a run
MC_run_mag(reverseFilterOrder, mcruns) ==
    IF Stochastic(mcruns)
    THEN mag_of(shiftedPhot("filter1"), shiftedPhot("filter2"),
                reverseFilterOrder)
    ELSE mag_of("filter1", "filter2", reverseFilterOrder)

\* a bug: density made a second name of the array handed in
empty_like_alias(a) == a

\* The array np.empty_like(filter1) gives, line 350: a new one, which the
\* function names density.
empty_like(a) == "density"

\* line 380: density[:] = ... writes into the array density names
StoreDensity(s, filter1) == s \cup {empty_like(filter1)}

\* the same through load_density, which reaches line 380 only when it
\* computes the density and hull_density has not raised
StoreLoaded(s, ld, filter1) ==
    IF ld.ok /\ ld.computed = 1 THEN StoreDensity(s, filter1) ELSE s

Fail(e) ==
    /\ pc' = "error"
    /\ err' = e

MC_Begin ==
    /\ pc = "mc_begin"
    /\ IF ~MC_shapes_ok(args.filter1, args.filter2, args.error1, args.error2,
                        args.mcruns)
       THEN /\ Fail("ShapeMismatch")
            /\ UNCHANGED <<width_coeff, baseSampling, iRun, density, calls>>
       ELSE /\ density' = <<>>
            /\ width_coeff' = MC_default_width(args.width_coeff)
            /\ IF Stochastic(args.mcruns)
               THEN /\ baseSampling' \in
                          [1..args.mcruns -> RunSamples(Len(args.error1))]
                    /\ calls' = [calls EXCEPT !.rng = @ + 1]
               ELSE /\ baseSampling' = << <<Zeros(Len(args.filter1)),
                                            Zeros(Len(args.filter1))>> >>
                    /\ calls' = calls
            /\ iRun' = 0
            /\ pc' = "mc_loop"
            /\ err' = err
    /\ UNCHANGED <<op, args, mcHist, cacheFile, result>>
    /\ UNCHANGED mflVars
    /\ UNCHANGED rnVars
    /\ UNCHANGED arrays

MC_Iter ==
    /\ pc = "mc_loop"
    /\ iRun < Len(baseSampling)
    /\ \E b \in {MC_LoopBody(iRun, baseSampling[iRun + 1], density,
                              width_coeff, args.filter1, args.filter2,
                              args.error1, args.error2,
                              args.reverseFilterOrder, args.mcruns,
                              args.convexHullPoints)} :
           /\ width_coeff' = b.width_coeff
           /\ calls' = [calls EXCEPT !.hull = @ + 1]
           /\ IF b.ok
              THEN /\ density' = b.density
                   /\ mcHist' = Append(mcHist,
                          [t |-> b.tDensity, applied |-> b.width_coeff,
                           own |-> b.own, D |-> b.density])
                   /\ iRun' = iRun + 1
                   /\ arrays' = [mag |-> MC_run_mag(args.reverseFilterOrder,
                                                     args.mcruns),
                                  written |-> StoreDensity(arrays.written,
                                                           "filter1")]
                   /\ UNCHANGED <<pc, err>>
              ELSE /\ Fail(b.err)
                   /\ arrays' = [arrays EXCEPT !.mag =
                                     MC_run_mag(args.reverseFilterOrder,
                                                args.mcruns)]
                   /\ UNCHANGED <<density, mcHist, iRun>>
    /\ UNCHANGED <<op, args, baseSampling, cacheFile, result>>
    /\ UNCHANGED mflVars
    /\ UNCHANGED rnVars

MC_Return ==
    /\ pc = "mc_loop"
    /\ iRun = Len(baseSampling)
    /\ result' = Returned("density", density)
    /\ pc' = "done"
    /\ UNCHANGED <<op, args, width_coeff, baseSampling, iRun, density, mcHist,
                   cacheFile, calls, err>>
    /\ UNCHANGED mflVars
    /\ UNCHANGED rnVars
    /\ UNCHANGED arrays

(***************************************************************************)
(* load_density, lines 658-677.  The result carries the file as the call   *)
(* leaves it and what the call did.                                        *)
(***************************************************************************)
\* lines 663-677, given what MC_convex_hull_density_approximation gave
Computed(cacheDensity, file, m) ==
    IF ~m.ok
    THEN [ok |-> FALSE, err |-> m.err, density |-> <<>>, file |-> file,
          read |-> 0, wrote |-> 0,
          computed |-> IF m.err = "ShapeMismatch" THEN 0 ELSE 1]
    ELSE [ok |-> TRUE, err |-> "", density |-> m.density,
          file |-> IF cacheDensity THEN File(m.density, 1) ELSE file,
          read |-> 0, wrote |-> IF cacheDensity THEN 1 ELSE 0,
          computed |-> 1]

\* a bug: the density computed and written again over an existing file
load_density_recomputed(cacheDensity, file, filter1, filter2, error1, error2, reverseFilterOrder, convexHullPoints, w) ==
    Computed(cacheDensity, file,
             MC_single(filter1, filter2, error1, error2, w,
                       reverseFilterOrder, convexHullPoints))

load_density(cacheDensity, file, filter1, filter2, error1, error2, reverseFilterOrder, convexHullPoints, w) ==
    IF cacheDensity /\ file.exists
    THEN [ok |-> TRUE, err |-> "", density |-> file.density, file |-> file,
          read |-> 1, wrote |-> 0, computed |-> 0]
    ELSE Computed(cacheDensity, file,
                  MC_single(filter1, filter2, error1, error2, w,
                            reverseFilterOrder, convexHullPoints))

Counted(c, ld) ==
    [c EXCEPT !.hull = @ + ld.computed, !.reads = @ + ld.read,
              !.writes = @ + ld.wrote]

(***************************************************************************)
(* Collaborators of measure_fiducial_lines whose code is outside the       *)
(* repository's sources: median_ridge_line_estimate gives the control      *)
(* points of the ridge (magnitudes x in ascending order, colours y), the   *)
(* binning services give one or two bins in magnitude                      *)
(* order, GMM_component_measurment gives one row of nPops centres per bin, *)
(* and an accumulator counts the add_measurement calls it received and     *)
(* the finalize calls made on it, and keeps the measurements of the latest *)
(* iteration.                                                              *)
(***************************************************************************)
RidgeFunctions ==
    { \* a ridge of colour zero
      [x |-> <<0, 1>>, y |-> <<0, 0>>],
      \* a ridge that falls by a third per magnitude, then stays level
      [x |-> <<0, 3, 6>>, y |-> <<0, -1, -1>>] }
CentreValues == {0, 1}
\* how many magnitude bins the binning services may produce
BinCounts == {1, 2}

(***************************************************************************)
(* ff = interp1d(fiducialLine[1], fiducialLine[0], bounds_error=False,     *)
(* fill_value="extrapolate"), lines 573-575: the linear interpolant of the *)
(* control points. A magnitude between two control points is evaluated on  *)
(* the segment that joins them; one beyond the ends, on the first or the   *)
(* last segment.                                                           *)
(***************************************************************************)
Clip(c, lo, hi) == IF c < lo THEN lo ELSE IF c > hi THEN hi ELSE c

\* the control point that closes the segment of magnitude m
SegmentEnd(x, m) ==
    Clip(Cardinality({j \in Idx(x) : x[j] < m}) + 1, 2, Len(x))

Slope(f, hi) ==
    FDiv(RInt(f.y[hi] - f.y[hi - 1]), RInt(f.x[hi] - f.x[hi - 1]))

Interpolated(f, m, hi) ==
    FAdd(FMul(Slope(f, hi), RInt(m - f.x[hi - 1])), RInt(f.y[hi - 1]))

ffAt(f, m) == Interpolated(f, m, SegmentEnd(f.x, m))

\* ff before the first ridge fit of a call
NoRidge == [x |-> <<>>, y |-> <<>>]

\* what a fitter (ridge, mixture) raises when it does not converge
FitFailure == "FitFailure"

BinMeans(nb) == SeqOf([b \in 1..nb |-> b])

\* mag_bins and the mean of its edges (lines 855-858)
mag_bins(mag) == BinMeans(2)

GMM_component_measurment(nb, n) == [1..nb -> [1..n -> CentreValues]]

\* an accumulator as its constructor leaves it: no measurement fed, and
\* finalize not yet called on it
fiducial_line(i) == [id |-> i, n |-> 0, batch |-> <<>>, finalized |-> 0]

add_measurement(line, m) == [line EXCEPT !.n = @ + 1, !.batch = Append(@, m)]

plm == [kind |-> "plm", val |-> <<>>]

\* lines 633-644
verticalize_CMD(color, mag, f) ==
    SeqOf([i \in Idx(color) |-> FSub(RInt(color[i]), ffAt(f, mag[i]))])

(***************************************************************************)
(* measure_fiducial_lines, lines 809-928.                                  *)
(***************************************************************************)
\* lines 823-830
\* a bug: the magnitude range taken from filter1 in both polarities
MFL_width_of_filter1(filter1, filter2, reverseFilterOrder) ==
    RangeRatio(filter1,
               SeqOf([i \in Idx(filter1) |-> filter1[i] - filter2[i]]))

MFL_width(filter1, filter2, reverseFilterOrder) ==
    IF reverseFilterOrder
    THEN RangeRatio(filter2,
                    SeqOf([i \in Idx(filter1) |-> filter2[i] - filter1[i]]))
    ELSE RangeRatio(filter1,
                    SeqOf([i \in Idx(filter1) |-> filter1[i] - filter2[i]]))

\* lines 916-918: np.argsort of the centres of one bin
SortCentres(cs) ==
    SeqOf([r \in Idx(cs) |->
        cs[CHOOSE i \in Idx(cs) :
            Cardinality({j \in Idx(cs) :
                cs[j] < cs[i] \/ (cs[j] = cs[i] /\ j < i)}) = r - 1]])

\* a bug: the centres left in the order the mixture gave them
SortRows_skipped(gmm) == SeqOf([b \in Idx(gmm) |-> SeqOf(gmm[b])])

SortRows(gmm) == SeqOf([b \in Idx(gmm) |-> SortCentres(SeqOf(gmm[b]))])

Measurement(colors, mags) == [color |-> colors, mag |-> mags]

\* lines 919-922: one call per row of the transposed centres
FeedTransposed(ls, gmm, ffv, mags) ==
    SeqOf([p \in Idx(ls) |->
        add_measurement(ls[p],
            Measurement(SeqOf([b \in Idx(gmm) |->
                            FAdd(RInt(gmm[b][p]), ffv[b])]), mags))])

\* lines 924-927: one call per row of the centres, each row broadcast
\* against ff(vMagBinMeans)
RECURSIVE FeedRows(_, _, _, _, _)
FeedRows(line, gmm, ffv, mags, b) ==
    IF b > Len(gmm) THEN line
    ELSE FeedRows(
             add_measurement(line,
                 Measurement(SeqOf([j \in Idx(ffv) |->
                                 FAdd(RInt(gmm[b][1]), ffv[j])]), mags)),
             gmm, ffv, mags, b + 1)

\* gmm_vert_means as lines 915-918 leave it
Centres(gmm, nPops) ==
    IF nPops # 1 THEN SortRows(gmm) ELSE SeqOf([b \in Idx(gmm) |-> SeqOf(gmm[b])])

\* ff(vMagBinMeans)
ffOfBins(f, mags) == SeqOf([b \in Idx(mags) |-> ffAt(f, mags[b])])

\* lines 919-927, given gmm_vert_means as lines 915-918 leave it
Feed(ls, centres, ffv, mags, nPops) ==
    IF nPops # 1
    THEN FeedTransposed(ls, centres, ffv, mags)
    ELSE <<FeedRows(ls[1], centres, ffv, mags, 1)>>

NewIteration(ls) == SeqOf([p \in Idx(ls) |-> [ls[p] EXCEPT !.batch = <<>>]])

NoTwin == <<>>

NoCmd == [color |-> <<>>, mag |-> <<>>, vColor |-> <<>>,
          f1 |-> <<>>, f2 |-> <<>>]

\* lines 809-832
MFL_Setup ==
    /\ pc = "mfl_begin"
    /\ logging' = [handlers |-> logging.handlers + 1,
                   level |-> IF args.verbose THEN "INFO" ELSE "WARNING",
                   showwarning |-> "warning_traceback"]
    /\ IF ~shape_dimension_check(args.filter1, args.filter2)
       THEN /\ Fail("ShapeMismatch")
            /\ UNCHANGED <<width_coeff, cmd, arrays>>
       ELSE /\ width_coeff' = MFL_width(args.filter1, args.filter2,
                                        args.reverseFilterOrder)
            /\ arrays' = [arrays EXCEPT !.mag =
                              mag_of("filter1", "filter2",
                                     args.reverseFilterOrder)]
            /\ \E cm \in {color_mag_from_filters(args.filter1, args.filter2,
                                                 args.reverseFilterOrder)} :
                  cmd' = [color |-> cm.color, mag |-> cm.mag, vColor |-> <<>>,
                          f1 |-> args.filter1, f2 |-> args.filter2]
            /\ pc' = "mfl_density"
            /\ err' = err
    /\ UNCHANGED <<op, args, baseSampling, iRun, density, mcHist, cacheFile,
                   calls, result, ff, Eval_mags, fiducial, gmm_vert_means,
                   lines, twin>>
    /\ UNCHANGED rnVars

\* lines 833-843
MFL_NominalDensity ==
    /\ pc = "mfl_density"
    /\ \E ld \in {load_density(args.cacheDensity, cacheFile, args.filter1,
                               args.filter2, args.error1, args.error2,
                               args.reverseFilterOrder, args.convexHullPoints,
                               width_coeff)} :
          /\ calls' = Counted(calls, ld)
          /\ cacheFile' = ld.file
          /\ arrays' = [arrays EXCEPT !.written =
                            StoreLoaded(@, ld, "filter1")]
          /\ IF ld.ok
             THEN /\ density' = ld.density
                  /\ pc' = "mfl_verticalize"
                  /\ err' = err
             ELSE /\ Fail(ld.err)
                  /\ UNCHANGED density
    /\ UNCHANGED <<op, args, width_coeff, baseSampling, iRun, mcHist, result>>
    /\ UNCHANGED mflVars
    /\ UNCHANGED rnVars

\* lines 845-858
MFL_Verticalize ==
    /\ pc = "mfl_verticalize"
    /\ \E f \in RidgeFunctions :
          /\ ff' = f
          /\ cmd' = [cmd EXCEPT !.vColor = verticalize_CMD(cmd.color, cmd.mag, f)]
    /\ Eval_mags' = mag_bins(cmd.mag)
    /\ pc' = "mfl_branch"
    /\ UNCHANGED <<op, args, cacheFile, calls, result, err, logging, fiducial,
                   gmm_vert_means, lines, twin>>
    /\ UNCHANGED mcVars
    /\ UNCHANGED rnVars
    /\ UNCHANGED arrays

\* lines 861-866, and the end of the function after them
MFL_Piecewise ==
    /\ pc = "mfl_branch"
    /\ args.piecewise_linear
    /\ fiducial' = plm
    /\ result' = None
    /\ pc' = "done"
    /\ UNCHANGED <<op, args, cacheFile, calls, err, logging, cmd, ff,
                   Eval_mags, gmm_vert_means, lines, twin>>
    /\ UNCHANGED mcVars
    /\ UNCHANGED rnVars
    /\ UNCHANGED arrays

\* lines 878-879
MFL_Sample ==
    /\ pc = "mfl_branch"
    /\ ~args.piecewise_linear
    /\ baseSampling' \in [1..args.mcruns -> RunSamples(Len(args.error1))]
    /\ twin' \in [1..args.mcruns -> RunSamples(Len(args.error1))]
    /\ calls' = [calls EXCEPT !.rng = @ + 1]
    /\ lines' = SeqOf([p \in 1..args.nPops |-> fiducial_line(p - 1)])
    /\ iRun' = 0
    /\ pc' = "mfl_loop"
    /\ UNCHANGED <<op, args, width_coeff, density, mcHist, cacheFile, result,
                   err, logging, cmd, ff, Eval_mags, fiducial, gmm_vert_means>>
    /\ UNCHANGED rnVars
    /\ UNCHANGED arrays

\* lines 880-894: a pass of the loop body as far as its density.  The
\* measurements and centres of the previous pass are not read again, so
\* the pass starts from accumulators with an empty batch and no centres.
MFL_Resample ==
    /\ pc = "mfl_loop"
    /\ iRun < Len(baseSampling)
    /\ twin' = NoTwin
    /\ IF ~(/\ shape_dimension_check(args.filter1, args.error1)
            /\ shape_dimension_check(args.filter2, args.error2))
       THEN /\ Fail("ShapeMismatch")
            /\ UNCHANGED <<density, cacheFile, calls, cmd, lines,
                           gmm_vert_means, arrays>>
       ELSE \E f1s \in {shift_photometry_by_error(args.filter1, args.error1,
                            baseSampling[iRun + 1][1])},
               f2s \in {shift_photometry_by_error(args.filter2, args.error2,
                            baseSampling[iRun + 1][2])} :
            \E cm \in {color_mag_from_filters(f1s, f2s,
                                              args.reverseFilterOrder)},
               ld \in {load_density(args.cacheDensity, cacheFile, f1s, f2s,
                                    args.error1, args.error2,
                                    args.reverseFilterOrder,
                                    args.convexHullPoints, width_coeff)} :
               /\ calls' = Counted(calls, ld)
               /\ cacheFile' = ld.file
               /\ arrays' = [mag |-> mag_of(shiftedPhot("filter1"),
                                            shiftedPhot("filter2"),
                                            args.reverseFilterOrder),
                              written |-> StoreLoaded(arrays.written, ld,
                                              shiftedPhot("filter1"))]
               /\ cmd' = [color |-> cm.color, mag |-> cm.mag,
                          vColor |-> cmd.vColor, f1 |-> f1s, f2 |-> f2s]
               /\ lines' = NewIteration(lines)
               /\ gmm_vert_means' = <<>>
               /\ IF ld.ok
                  THEN /\ density' = ld.density
                       /\ pc' = "mfl_fit"
                       /\ err' = err
                  ELSE /\ Fail(ld.err)
                       /\ UNCHANGED density
    /\ UNCHANGED <<op, args, width_coeff, baseSampling, iRun, mcHist, result,
                   logging, ff, Eval_mags, fiducial>>
    /\ UNCHANGED rnVars

\* lines 896-927: the rest of the pass.  The loop body has no exception
\* handler, so a fitter that raises ends the call.
MFL_Fit ==
    /\ pc = "mfl_fit"
    /\ \/ /\ \E f \in RidgeFunctions :
             \E vColor \in {verticalize_CMD(cmd.color, cmd.mag, f)} :
             \E nb \in BinCounts :
             \E ffv \in {ffOfBins(f, BinMeans(nb))} :
             \E gmm \in GMM_component_measurment(nb, args.nPops) :
             \E centres \in {Centres(gmm, args.nPops)} :
                /\ ff' = f
                /\ cmd' = [cmd EXCEPT !.vColor = vColor]
                /\ gmm_vert_means' = centres
                /\ lines' = Feed(lines, centres, ffv, BinMeans(nb), args.nPops)
          /\ iRun' = iRun + 1
          /\ pc' = "mfl_loop"
          /\ err' = err
       \/ /\ Fail(FitFailure)
          /\ UNCHANGED <<ff, cmd, gmm_vert_means, lines, iRun>>
    /\ UNCHANGED <<op, args, width_coeff, baseSampling, density, mcHist,
                   cacheFile, calls, result, logging, Eval_mags, fiducial,
                   twin>>
    /\ UNCHANGED rnVars
    /\ UNCHANGED arrays

\* a bug: the accumulators returned in reverse order
MFL_Return_reversed ==
    /\ pc = "mfl_loop"
    /\ iRun = Len(baseSampling)
    /\ result' = Returned("lines",
           SeqOf([p \in Idx(lines) |-> lines[Len(lines) + 1 - p]]))
    /\ pc' = "done"
    /\ UNCHANGED <<op, args, cacheFile, calls, err>>
    /\ UNCHANGED mcVars
    /\ UNCHANGED mflVars
    /\ UNCHANGED rnVars
    /\ UNCHANGED arrays

\* line 928
MFL_Return ==
    /\ pc = "mfl_loop"
    /\ iRun = Len(baseSampling)
    /\ result' = Returned("lines", lines)
    /\ pc' = "done"
    /\ UNCHANGED <<op, args, cacheFile, calls, err>>
    /\ UNCHANGED mcVars
    /\ UNCHANGED mflVars
    /\ UNCHANGED rnVars
    /\ UNCHANGED arrays

(***************************************************************************)
(* Direct calls of hull_density and of instantaious_hull_density.          *)
(***************************************************************************)
\* lines 189-196
HD_Call ==
    /\ pc = "hd_begin"
    /\ \E hd \in {hull_density(SeqOf([i \in Idx(args.X) |-> RInt(args.X[i])]),
                                SeqOf([i \in Idx(args.Y) |-> RInt(args.Y[i])]),
                                args.n)} :
          IF hd.ok
          THEN /\ result' = Returned("density", hd.val)
               /\ pc' = "done"
               /\ err' = err
          ELSE /\ Fail(hd.err)
               /\ UNCHANGED result
    /\ calls' = [calls EXCEPT !.hull = @ + 1]
    /\ UNCHANGED <<op, args, cacheFile>>
    /\ UNCHANGED mcVars
    /\ UNCHANGED mflVars
    /\ UNCHANGED rnVars
    /\ UNCHANGED arrays

\* lines 148-154
IHD_Call ==
    /\ pc = "ihd_begin"
    /\ \E h \in {instantaious_hull_density(args.r0, Rows(args.X, args.Y),
                                            args.n)} :
          IF h.ok
          THEN /\ result' = Returned("hull", [density |-> h.val,
                                              partition |-> h.partition])
               /\ pc' = "done"
               /\ err' = err
          ELSE /\ Fail(h.err)
               /\ UNCHANGED result
    /\ UNCHANGED <<op, args, cacheFile, calls>>
    /\ UNCHANGED mcVars
    /\ UNCHANGED mflVars
    /\ UNCHANGED rnVars
    /\ UNCHANGED arrays

(***************************************************************************)
(* renormalize, lines 424-473.                                             *)
(***************************************************************************)
\* largest catalogue handed to renormalize
MaxStars == 42

\* line 433
InitialNeighbours == 10

\* the float 0.001 of line 444
SpacingFloor == Fl(<<1, 1000>>)

RAbs(q) == <<Abs(q[1]), q[2]>>

\* np.ceil followed by int
Ceil(q) == -((-q[1]) \div q[2])

RMax(s) == CHOOSE m \in {s[i] : i \in Idx(s)} : \A i \in Idx(s) : RLe(s[i], m)

\* df[:, idx]
Take(rows, idx) ==
    SeqOf([r \in Idx(rows) |-> SeqOf([k \in Idx(idx) |-> rows[r][idx[k]]])])

\* argsort of one column; equal entries keep their order
ArgSort(col) ==
    SeqOf([k \in Idx(col) |->
        CHOOSE i \in Idx(col) :
            Cardinality({j \in Idx(col) : Before(col, j, i)}) = k - 1])

\* lines 429-430, given the order df[:, 0].argsort() finds
SortedFrame(filter1, filter2, error1, error2, order) ==
    Take(<<filter1, error1, filter2, error2>>, order)

\* df[0, :-neighbor_n] - df[0, neighbor_n:], lines 434 and 446
Spacing(row, n) ==
    IF n >= Len(row) THEN <<>>
    ELSE SeqOf([i \in 1..(Len(row) - n) |-> FSub(row[i], row[i + n])])

\* lines 435-441 and 447-453, for a spacing that is not empty
Padded(d, n) ==
    SeqOf([i \in 1..(n \div 2) |-> d[1]]) \o d
        \o SeqOf([i \in 1..(n \div 2) |-> d[Len(d)]])

\* lines 435-441 and 447-453 for the spacing d of line 434 or 446: diff[0]
\* of an empty diff raises IndexError
NeighbourSpacing(d, n) ==
    IF d = <<>>
    THEN [ok |-> FALSE, err |-> "IndexError", diff |-> <<>>]
    ELSE [ok |-> TRUE, err |-> "", diff |-> Padded(d, n)]

\* line 444
TooClose(m) == RLt(RAbs(m), SpacingFloor)

\* line 456
repeat_time(d, m, len) ==
    SeqOf([i \in 1..len |-> Ceil(FDiv(d[i], FMul(RInt(10), m)))])

\* [i] * repeat_time[i] for i from `from` on, concatenated: line 457-459
RECURSIVE repeat_idx_from_second(_, _)
repeat_idx_from_second(times, from) ==
    IF from + 1 > Len(times) THEN <<>>
    ELSE SeqOf([k \in 1..times[from + 1] |-> from + 1])
            \o repeat_idx_from_second(times, from + 1)

RECURSIVE repeat_idx(_, _)
repeat_idx(times, from) ==
    IF from > Len(times) THEN <<>>
    ELSE SeqOf([k \in 1..times[from] |-> from])
            \o repeat_idx(times, from + 1)

\* lines 461-473: the tuple as the return statement orders it, rows being
\* df as line 460 leaves it
Renormalized(rows) == <<rows[1], rows[2], rows[3], rows[4]>>

\* lines 424-442.  reshape(1, len_data) raises ValueError for an array of
\* another length.
RN_Begin ==
    /\ pc = "rn_begin"
    /\ IF \/ Len(args.filter2) # Len(args.filter1)
          \/ Len(args.error1) # Len(args.filter1)
          \/ Len(args.error2) # Len(args.filter1)
       THEN /\ Fail("ValueError")
            /\ UNCHANGED rnVars
       ELSE \E order \in {ArgSort(args.filter1)} :
            \E rows \in {SortedFrame(args.filter1, args.filter2, args.error1,
                                     args.error2, order)} :
            \E d \in {Spacing(rows[1], InitialNeighbours)} :
            \E ns \in {NeighbourSpacing(d, InitialNeighbours)} :
               /\ df' = rows
               /\ neighbor_n' = InitialNeighbours
               /\ diff' = ns.diff
               /\ IF ns.ok
                  THEN /\ max_diff' = RMax(ns.diff)
                       /\ pc' = "rn_loop"
                       /\ err' = err
                  ELSE /\ Fail(ns.err)
                       /\ UNCHANGED max_diff
    /\ UNCHANGED <<op, args, cacheFile, calls, result>>
    /\ UNCHANGED mcVars
    /\ UNCHANGED mflVars
    /\ UNCHANGED arrays

\* lines 444-454: one pass of the while loop
RN_Double ==
    /\ pc = "rn_loop"
    /\ TooClose(max_diff)
    /\ \E d \in {Spacing(df[1], 2 * neighbor_n)} :
       \E ns \in {NeighbourSpacing(d, 2 * neighbor_n)} :
          /\ neighbor_n' = 2 * neighbor_n
          /\ diff' = ns.diff
          /\ IF ns.ok
             THEN /\ max_diff' = RMax(ns.diff)
                  /\ UNCHANGED <<pc, err>>
             ELSE /\ Fail(ns.err)
                  /\ UNCHANGED max_diff
    /\ UNCHANGED <<op, args, cacheFile, calls, result, df>>
    /\ UNCHANGED mcVars
    /\ UNCHANGED mflVars
    /\ UNCHANGED arrays

\* lines 456-473.  A star repeated zero times contributes an empty float
\* array, and np.concatenate then yields a float array, which cannot index
\* df.
RN_Return ==
    /\ pc = "rn_loop"
    /\ ~TooClose(max_diff)
    /\ \E times \in {repeat_time(diff, max_diff, Len(df[1]))} :
          IF \E i \in Idx(times) : times[i] <= 0
          THEN /\ Fail("IndexError")
               /\ UNCHANGED <<result, df>>
          ELSE \E idx \in {repeat_idx(times, 1)} :
               \E rows \in {Take(df, idx)} :
                  /\ df' = rows
                  /\ result' = Returned("renormalized", Renormalized(rows))
                  /\ pc' = "done"
                  /\ err' = err
    /\ UNCHANGED <<op, args, cacheFile, calls, neighbor_n, diff, max_diff>>
    /\ UNCHANGED mcVars
    /\ UNCHANGED mflVars
    /\ UNCHANGED arrays

(***************************************************************************)
(* Initial states: one call of one of the functions.                       *)
(***************************************************************************)
InitHD ==
    /\ op = "HD"
    /\ \E c \in Clouds, k \in NeighbourChoices :
          args = [X |-> c.X, Y |-> c.Y, n |-> k]
    /\ pc = "hd_begin"
    /\ cacheFile = NoFile

InitIHD ==
    /\ op = "IHD"
    /\ \E c \in Clouds, k \in NeighbourChoices :
       \E i \in Idx(c.X) :
          args = [r0 |-> i, X |-> c.X, Y |-> c.Y, n |-> k]
    /\ pc = "ihd_begin"
    /\ cacheFile = NoFile

InitMC ==
    /\ op = "MC"
    /\ \E p \in Photometry, w \in WidthChoices, r \in BOOLEAN,
          m \in 0..MaxRunsDensity, k \in HullPointChoices :
          args = [filter1 |-> p.filter1, filter2 |-> p.filter2,
                  error1 |-> p.error1, error2 |-> p.error2,
                  width_coeff |-> w, reverseFilterOrder |-> r, mcruns |-> m,
                  convexHullPoints |-> k, cacheDensity |-> FALSE,
                  piecewise_linear |-> FALSE, nPops |-> 1, verbose |-> FALSE]
    /\ pc = "mc_begin"
    /\ cacheFile = NoFile

InitMFL ==
    /\ op = "MFL"
    /\ \E p \in Photometry, r \in BOOLEAN, m \in 0..MaxRunsFiducial,
          k \in HullPointChoices, c \in BOOLEAN, pw \in BOOLEAN,
          n \in 1..MaxPops, v \in BOOLEAN :
          args = [filter1 |-> p.filter1, filter2 |-> p.filter2,
                  error1 |-> p.error1, error2 |-> p.error2,
                  width_coeff |-> WcNone, reverseFilterOrder |-> r,
                  mcruns |-> m, convexHullPoints |-> k, cacheDensity |-> c,
                  piecewise_linear |-> pw, nPops |-> n, verbose |-> v]
    /\ pc = "mfl_begin"
    /\ cacheFile \in {NoFile, File(StoredDensity, 1)}

\* magnitude of the i-th star (from 0) of a catalogue: stars one magnitude
\* apart, stars 1/16384 or 1/32768 of a magnitude apart, and a clump of
\* eleven stars followed by stars twenty magnitudes apart
Layouts == {"wide", "tight", "tighter", "clump"}

Magnitude(layout, i) ==
    CASE layout = "wide" -> RInt(i)
      [] layout = "tight" -> Fl(Rat(i, 16384))
      [] layout = "tighter" -> Fl(Rat(i, 32768))
      [] layout = "clump" ->
            IF i <= 10 THEN Fl(Rat(i, 8))
            ELSE Fl(RAdd(Rat(10, 8), RInt(20 * (i - 10))))

\* catalogues handed to renormalize, no two stars of one magnitude; star s
\* has filter2 = 100 + s and both errors = s, the faintest star first when
\* `descending`, and error1 one star short when `short`
Catalogue(layout, n, descending, short) ==
    [filter1 |-> SeqOf([s \in 1..n |->
                    Magnitude(layout, IF descending THEN n - s ELSE s - 1)]),
     filter2 |-> SeqOf([s \in 1..n |-> RInt(100 + s)]),
     error1 |-> SeqOf([s \in 1..(IF short /\ n > 0 THEN n - 1 ELSE n) |->
                    RInt(s)]),
     error2 |-> SeqOf([s \in 1..n |-> RInt(s)])]

InitRN ==
    /\ op = "RN"
    /\ \E layout \in Layouts, n \in 0..MaxStars, descending \in BOOLEAN,
          short \in BOOLEAN :
          /\ short => (layout = "wide" /\ descending)
          /\ args = Catalogue(layout, n, descending, short)
    /\ pc = "rn_begin"
    /\ cacheFile = NoFile

\* the root logger and the warnings hook of a process that has not yet
\* called measure_fiducial_lines
FreshProcess ==
    [handlers |-> 0, level |-> "WARNING", showwarning |-> "default"]

Init ==
    /\ InitMC \/ InitMFL \/ InitHD \/ InitIHD \/ InitRN
    /\ width_coeff = WcNone
    /\ baseSampling = <<>>
    /\ iRun = 0
    /\ density = <<>>
    /\ mcHist = <<>>
    /\ calls = [rng |-> 0, hull |-> 0, reads |-> 0, writes |-> 0]
    /\ result = Unset
    /\ err = ""
    /\ logging = FreshProcess
    /\ cmd = NoCmd
    /\ ff = NoRidge
    /\ Eval_mags = <<>>
    /\ fiducial = Unset
    /\ gmm_vert_means = <<>>
    /\ lines = <<>>
    /\ twin = NoTwin
    /\ df = <<>>
    /\ neighbor_n = 0
    /\ diff = <<>>
    /\ max_diff = RZero
    /\ arrays = [mag |-> "none", written |-> {}]

Next ==
    \/ HD_Call
    \/ IHD_Call
    \/ MC_Begin
    \/ MC_Iter
    \/ MC_Return
    \/ MFL_Setup
    \/ MFL_NominalDensity
    \/ MFL_Verticalize
    \/ MFL_Piecewise
    \/ MFL_Sample
    \/ MFL_Resample
    \/ MFL_Fit
    \/ MFL_Return
    \/ RN_Begin
    \/ RN_Double
    \/ RN_Return

Spec == Init /\ [][Next]_vars

(***************************************************************************)
(* Properties.                                                             *)
(***************************************************************************)
Returns(o) == op = o /\ pc = "done"

\* the halving recurrence over the per-run density fields ts[1..n]
RECURSIVE Halving(_, _)
Halving(ts, n) ==
    IF n = 1 THEN ts[1]
    ELSE SeqOf([j \in Idx(ts[n]) |->
             FDiv(FAdd(Halving(ts, n - 1)[j], ts[n][j]), RInt(2))])

RECURSIVE SumOfRuns(_, _, _)
SumOfRuns(ts, n, j) ==
    IF n = 0 THEN RZero ELSE FAdd(ts[n][j], SumOfRuns(ts, n - 1, j))

UniformMean(ts) ==
    SeqOf([j \in Idx(ts[1]) |-> FDiv(SumOfRuns(ts, Len(ts), j), RInt(Len(ts)))])

RunDensities == SeqOf([i \in Idx(mcHist) |-> mcHist[i].t])

\* C1: with mcruns = n > 1 MC_convex_hull_density_approximation returns D_n,
\* where D_1 = t_1 and D_i = (D_(i-1) + t_i) / 2 elementwise for i in 2..n
\* over the per-run density fields t_1..t_n.
C1_HalvingRecurrence ==
    (Returns("MC") /\ args.mcruns > 1) =>
        /\ Len(mcHist) = args.mcruns
        /\ result = Returned("density", Halving(RunDensities, args.mcruns))

\* a call of three runs whose result is not the uniform mean of its runs
C1_Witness ==
    /\ Returns("MC")
    /\ args.mcruns = 3
    /\ result.val = Halving(RunDensities, 3)
    /\ result.val # UniformMean(RunDensities)

\* the coefficient the arguments name, before any run
NominalWidth ==
    IF args.width_coeff.tag = "none" THEN RInt(1)
    ELSE IF args.width_coeff.tag = "auto"
         THEN RangeRatio(
                  color_mag_from_filters(args.filter1, args.filter2,
                                         args.reverseFilterOrder).mag,
                  color_mag_from_filters(args.filter1, args.filter2,
                                         args.reverseFilterOrder).color).val
         ELSE args.width_coeff.val

NominalDensity(w) ==
    hull_density(
        SeqOf([j \in Idx(args.filter1) |->
                  FMul(RInt(args.filter1[j] - args.filter2[j]), w)]),
        SeqOf([j \in Idx(args.filter1) |->
                  RInt(IF args.reverseFilterOrder THEN args.filter2[j]
                       ELSE args.filter1[j])]),
        args.convexHullPoints).val

\* C2: with mcruns = 1 MC_convex_hull_density_approximation draws no random
\* sample, computes one density and returns the density hull_density gives
\* on the nominal colour and magnitude, whatever error1 and error2 are.
C2_SingleRunIsNominal ==
    (Returns("MC") /\ args.mcruns = 1) =>
        /\ calls.rng = 0
        /\ calls.hull = 1
        /\ result = Returned("density", NominalDensity(NominalWidth))

\* a single-run call that returned, on errors that are not all zero
C2_Witness ==
    /\ Returns("MC")
    /\ args.mcruns = 1
    /\ \E j \in Idx(args.error1) : args.error1[j] # 0
    /\ Len(args.error1) # Len(args.filter1)
    /\ result.kind = "density"

\* C3: with width_coeff "auto" and mcruns > 1, the coefficient applied in
\* every run is the magnitude range over the colour range of that run's own
\* perturbed draw.
C3_AutoWidthPerRun ==
    (op = "MC" /\ args.width_coeff.tag = "auto" /\ args.mcruns > 1) =>
        \A r \in Idx(mcHist) : mcHist[r].applied = mcHist[r].own

\* C4: when piecewise_linear is not False, measure_fiducial_lines returns
\* the ridge line plm produced, and creates no accumulator and runs no
\* Monte Carlo iteration.
C4_PiecewiseReturnsPlmLine ==
    (Returns("MFL") /\ args.piecewise_linear) =>
        /\ result = fiducial
        /\ fiducial = plm
        /\ lines = <<>>
        /\ iRun = 0
        /\ calls.rng = 0

InLoop == op = "MFL" /\ pc \in {"mfl_loop", "done"} /\ ~args.piecewise_linear

\* C6: for every nPops >= 1 and mcruns >= 1 each accumulator receives
\* exactly one add_measurement call per Monte Carlo iteration, so mcruns
\* calls by the return, and each call carries one colour value per
\* magnitude bin of the iteration, in bin order.
C6_OneMeasurementPerIteration ==
    (InLoop /\ args.mcruns >= 1) =>
        /\ \A p \in Idx(lines) :
              /\ lines[p].n = iRun
              /\ iRun >= 1 =>
                    /\ Len(lines[p].batch) = 1
                    /\ lines[p].batch[1].color =
                          SeqOf([b \in Idx(gmm_vert_means) |->
                              FAdd(RInt(gmm_vert_means[b][p]),
                                   ffAt(ff, lines[p].batch[1].mag[b]))])
        /\ pc = "done" => \A p \in Idx(lines) : lines[p].n = args.mcruns

\* C7: in every iteration and every bin the colour fed to the accumulator
\* of population i is at most the colour fed to that of population i + 1,
\* for every nPops >= 2.
C7_PopulationsAscending ==
    (InLoop /\ args.nPops >= 2 /\ iRun >= 1) =>
        \A p \in 1..(args.nPops - 1) :
            /\ Len(lines[p].batch) = 1
            /\ Len(lines[p + 1].batch) = 1
            /\ \A b \in Idx(lines[p].batch[1].color) :
                  RLe(lines[p].batch[1].color[b],
                      lines[p + 1].batch[1].color[b])

\* an iteration fed two populations distinct colours in some bin
C7_Witness ==
    /\ InLoop
    /\ args.nPops >= 2
    /\ iRun >= 1
    /\ \E b \in Idx(lines[1].batch[1].color) :
          RLt(lines[1].batch[1].color[b], lines[2].batch[1].color[b])

\* C8: with nPops = 1 the nPops == 1 branch feeds the single accumulator
\* the measurements the sort-then-transpose branch would feed it for one
\* population: as many calls, the same colours and magnitudes.
C8_SingleBranchAgrees ==
    (InLoop /\ args.nPops = 1 /\ iRun >= 1) =>
        lines[1].batch =
            FeedTransposed(<<fiducial_line(0)>>, SortRows(gmm_vert_means),
                           ffOfBins(ff, BinMeans(Len(gmm_vert_means))),
                           BinMeans(Len(gmm_vert_means)))[1].batch

\* C9: in every iteration of measure_fiducial_lines the density passed to
\* verticalization and binning is computed from the iteration's perturbed
\* photometry, also with cacheDensity = True.
C9_DensityOfPerturbedPhotometry ==
    (op = "MFL" /\ pc = "mfl_fit") =>
        density = MC_single(cmd.f1, cmd.f2, args.error1, args.error2,
                            width_coeff, args.reverseFilterOrder,
                            args.convexHullPoints).density

\* a step that ran load_density to its end
LoadStep ==
    \/ pc = "mfl_density" /\ pc' = "mfl_verticalize"
    \/ pc = "mfl_loop" /\ pc' = "mfl_fit"

\* the density of one run on the photometry the step handed to load_density
FreshDensity ==
    ScaledDensity(cmd'.color, cmd'.mag, width_coeff,
                  args.convexHullPoints).val

\* C10: load_density with caching enabled returns the stored density of an
\* existing cache file without computing or writing; without the file it
\* computes the density of one run and writes it with mcruns = 1, so that
\* the load_density that follows returns the same array.  With caching
\* disabled it neither reads nor writes the cache.
C10_CacheHitMissOff ==
    [][LoadStep =>
        /\ (args.cacheDensity /\ cacheFile.exists) =>
              /\ density' = cacheFile.density
              /\ calls'.hull = calls.hull
              /\ calls'.writes = calls.writes
              /\ calls'.reads = calls.reads + 1
              /\ cacheFile' = cacheFile
        /\ (args.cacheDensity /\ ~cacheFile.exists) =>
              /\ density' = FreshDensity
              /\ calls'.hull = calls.hull + 1
              /\ calls'.writes = calls.writes + 1
              /\ calls'.reads = calls.reads
              /\ cacheFile' = File(density', 1)
              /\ load_density(TRUE, cacheFile', args.filter1, args.filter2,
                              args.error1, args.error2,
                              args.reverseFilterOrder, args.convexHullPoints,
                              width_coeff).density = density'
        /\ ~args.cacheDensity =>
              /\ density' = FreshDensity
              /\ calls'.reads = calls.reads
              /\ calls'.writes = calls.writes
              /\ cacheFile' = cacheFile]_vars

\* a call that missed the cache, wrote it, and then read what it wrote
C10_Witness ==
    /\ op = "MFL"
    /\ args.cacheDensity
    /\ calls.writes = 1
    /\ calls.reads >= 1
    /\ cacheFile = File(density, 1)
\* C11: within one measure_fiducial_lines call with caching enabled the
\* cache file is read at most once, and it is never written after it has
\* been read.
C11_CacheReadOnce ==
    [][(op = "MFL" /\ args.cacheDensity) =>
          /\ calls'.reads <= 1
          /\ calls.reads >= 1 => calls'.writes = calls.writes]_vars
LengthsDiffer ==
    \E a \in {args.filter2, args.error1, args.error2} :
        Len(a) # Len(args.filter1)

\* C12: if filter1, filter2, error1 and error2 are not all of one length,
\* MC_convex_hull_density_approximation (for any mcruns >= 1) and
\* measure_fiducial_lines end with a shape-mismatch error, and before that
\* no density is computed, no cache file is written and no accumulator
\* receives a measurement.
C12_ShapeMismatchFailsFirst ==
    (/\ op \in {"MC", "MFL"}
     /\ LengthsDiffer
     /\ op = "MC" => args.mcruns >= 1) =>
        /\ calls.hull = 0
        /\ calls.writes = 0
        /\ \A p \in Idx(lines) : lines[p].n = 0
        /\ pc # "done"
        /\ pc = "error" => err = "ShapeMismatch"
Degenerate ==
    \/ args.nPops < 1
    \/ args.mcruns < 1
    \/ args.convexHullPoints > Len(args.filter1)

\* C13: with nPops < 1, mcruns < 1 or convexHullPoints above the number of
\* stars, both functions end with a configuration error before any random
\* sample is drawn or any density is computed; a call with mcruns < 1
\* never returns a result.
C13_DegenerateFailsFast ==
    (op \in {"MC", "MFL"} /\ Degenerate) =>
        /\ calls.rng = 0
        /\ calls.hull = 0
        /\ pc # "done"
        /\ pc = "error" => err = "ConfigurationError"
\* C14: a ridge or mixture fit that fails in one Monte Carlo iteration of
\* measure_fiducial_lines does not end the call: the iteration is skipped,
\* the remaining iterations run and the ridge lines are returned.
C14_FitFailureSkipsIteration ==
    ~(op = "MFL" /\ pc = "error" /\ err = FitFailure)
\* C15: a call of measure_fiducial_lines leaves the process-wide state as
\* it found it, the cache file apart: the root logger has the handlers and
\* the level it had before the call and the warnings display hook is the
\* one installed before the call.
C15_ProcessStateRestored ==
    (op = "MFL" /\ pc \in {"done", "error"}) => logging = FreshProcess
\* the photometry a call shifts in pass i, given its draws
Shifted(bs, i) ==
    <<shift_photometry_by_error(args.filter1, args.error1, bs[i][1]),
      shift_photometry_by_error(args.filter2, args.error2, bs[i][2])>>

\* C16: two calls of measure_fiducial_lines with the same inputs, the same
\* configuration and the same random seed feed their accumulators the same
\* measurements and return the same lines: in every pass the two calls
\* work on the same perturbed photometry.
C16_SameSeedSameRun ==
    (/\ op = "MFL"
     /\ pc = "mfl_loop"
     /\ iRun = 0
     /\ Len(twin) = Len(baseSampling)
     /\ shape_dimension_check(args.filter1, args.error1)
     /\ shape_dimension_check(args.filter2, args.error2)) =>
        \A i \in Idx(baseSampling) : Shifted(baseSampling, i) = Shifted(twin, i)
\* C17: whenever hull_density succeeds, the median of the density vector
\* it returns is exactly 1, for odd and for even numbers of points.
C17_MedianIsOne ==
    Returns("HD") => Median(result.val) = RInt(1)
\* the outcome of the instantaious_hull_density call of the state
CallOfIHD == instantaious_hull_density(args.r0, Rows(args.X, args.Y), args.n)

\* C18: for a query point r0 that is a row of the cloud and every n >= 1,
\* the n indices instantaious_hull_density selects include the index of
\* r0, also when other rows of the cloud coincide with r0.
C18_SelectionIncludesQuery ==
    (op = "IHD" /\ pc # "ihd_begin" /\ args.n >= 1 /\ args.n < Len(args.X)) =>
        args.r0 \in CallOfIHD.partition
\* the exceptions by which numpy (a neighbour count beyond the array) and
\* Qhull (a flat hull) report a cloud that cannot carry the hull asked for
GeometryErrors == {"ValueError", "GeometryError"}

Verticalized ==
    /\ op = "MFL"
    /\ pc \in {"mfl_branch", "mfl_loop", "done"}
    /\ Len(cmd.vColor) = Len(cmd.color)

\* C20: for every point the vertical colour returned by verticalize_CMD
\* added to ff at the point's magnitude gives the point's colour back, ff
\* being the ridge function of the same call and defined for magnitudes
\* beyond its control points too.
C20_VerticalRoundTrip ==
    Verticalized =>
        \A i \in Idx(cmd.color) :
            FAdd(cmd.vColor[i], ffAt(ff, cmd.mag[i])) = RInt(cmd.color[i])

\* the magnitude range over the range of filter1 - filter2 on the nominal
\* photometry
NominalRatio ==
    RangeRatio(IF args.reverseFilterOrder THEN args.filter2 ELSE args.filter1,
               SeqOf([i \in Idx(args.filter1) |->
                         args.filter1[i] - args.filter2[i]]))

\* C21: measure_fiducial_lines computes width_coeff once, before its first
\* density, as the nominal magnitude range (filter2 when reverseFilterOrder,
\* else filter1) over the range of filter1 - filter2; no later step changes
\* it, and every density the call computes, nominal or of an iteration, is
\* the hull density of the colour scaled by that value.
C21_WidthOnceFromNominal ==
    [][op = "MFL" =>
        /\ (pc = "mfl_begin" /\ pc' # "error") => width_coeff' = NominalRatio
        /\ pc # "mfl_begin" => width_coeff' = width_coeff
        /\ (LoadStep /\ calls'.hull > calls.hull) =>
              density' = ScaledDensity(cmd'.color, cmd'.mag, NominalRatio,
                                       args.convexHullPoints).val]_vars

\* the second iteration of a call in reversed polarity has computed its
\* density
C21_Witness ==
    /\ op = "MFL"
    /\ pc = "mfl_fit"
    /\ args.reverseFilterOrder
    /\ ~args.cacheDensity
    /\ iRun = 1
    /\ calls.hull = 3
    /\ SeqMax(args.filter1) - SeqMin(args.filter1)
           # SeqMax(args.filter2) - SeqMin(args.filter2)

\* C22: in the non-piecewise mode every accumulator measure_fiducial_lines
\* returns has been finalized exactly once, after its last add_measurement
\* and before the return.
C22_FinalizedOnceBeforeReturn ==
    (Returns("MFL") /\ ~args.piecewise_linear) =>
        \A p \in Idx(result.val) : result.val[p].finalized = 1

\* the density lines 360-380 leave after the runs 1..n of fields ts
RECURSIVE FoldRuns(_, _)
FoldRuns(ts, n) ==
    IF n = 0 THEN <<>> ELSE MC_fold(n - 1, FoldRuns(ts, n - 1), ts[n])

\* n one-point fields: density one in run i, zero in the other runs
UnitRuns(i, n) ==
    SeqOf([r \in 1..n |-> <<RInt(IF r = i THEN 1 ELSE 0)>>])

\* the weight of run i's field in the density returned after n runs: the
\* loop is linear in the fields, so it is what the loop makes of UnitRuns
WeightOfRun(i, n) == FoldRuns(UnitRuns(i, n), n)[1]

\* C23: in the density MC_convex_hull_density_approximation returns for
\* mcruns = n >= 2, the weight of run j's field is strictly greater than
\* the weight of run i's for every pair of runs i < j.
C23_LaterRunsWeighMore ==
    (Returns("MC") /\ args.mcruns >= 2) =>
        \A i, j \in 1..args.mcruns :
            i < j => RLt(WeightOfRun(i, args.mcruns),
                         WeightOfRun(j, args.mcruns))

\* C23, amended: the weight of run j's field is at least the weight of run
\* i's for every pair of runs i < j, and strictly greater unless the pair
\* is the first two runs, which weigh the same.
C23_LaterRunsWeighNoLess ==
    (Returns("MC") /\ args.mcruns >= 2) =>
        /\ Len(mcHist) = args.mcruns
        /\ \A i, j \in 1..args.mcruns :
              i < j =>
                  IF j = 2
                  THEN WeightOfRun(i, args.mcruns) = WeightOfRun(j, args.mcruns)
                  ELSE RLt(WeightOfRun(i, args.mcruns),
                           WeightOfRun(j, args.mcruns))

\* a call of three runs returned: weights of a quarter, a quarter and a half
C23_Witness ==
    /\ Returns("MC")
    /\ args.mcruns = 3
    /\ WeightOfRun(1, 3) = Rat(1, 4)
    /\ WeightOfRun(2, 3) = Rat(1, 4)
    /\ WeightOfRun(3, 3) = Rat(1, 2)

\* C24: every density field MC_convex_hull_density_approximation returns,
\* for one run or as the running average of several, has median 1 and no
\* negative value.
C24_ReturnedMedianIsOne ==
    Returns("MC") =>
        /\ Median(result.val) = RInt(1)
        /\ \A j \in Idx(result.val) : RLe(RZero, result.val[j])

\* C25: renormalize returns (filter1, filter2, error1, error2) in that order,
\* the four arrays equally long, and element j of each taken from one and
\* the same input star.
FromOneStar(val, j) ==
    \E s \in Idx(args.filter1) :
        /\ val[1][j] = args.filter1[s]
        /\ val[2][j] = args.filter2[s]
        /\ val[3][j] = args.error1[s]
        /\ val[4][j] = args.error2[s]

C25_ReturnOrderAsDocumented ==
    Returns("RN") =>
        /\ \A r \in 1..4 : Len(result.val[r]) = Len(result.val[1])
        /\ \A j \in Idx(result.val[1]) : FromOneStar(result.val, j)

\* C26: for a cloud of exactly k points, three of them off one line,
\* instantaious_hull_density with n = k succeeds, selects all k points and
\* returns k divided by the hull area of the whole cloud.
WholeCloud ==
    /\ op = "IHD"
    /\ args.n = Len(args.X)
    /\ HullVolume({Rows(args.X, args.Y)[j] : j \in Idx(args.X)}) # RZero

C26_WholeCloudSucceeds ==
    (WholeCloud /\ pc # "ihd_begin") =>
        /\ pc = "done"
        /\ result.val.partition = Idx(args.X)
        /\ result.val.density =
              FDiv(RInt(args.n),
                   HullVolume({Rows(args.X, args.Y)[j] : j \in Idx(args.X)}))

\* renormalize alone, its steps taken as long as one is enabled: a call that
\* has begun runs on until it returns or raises
InitRenormalize == Init /\ op = "RN"

NextRenormalize ==
    \/ RN_Begin
    \/ RN_Double
    \/ RN_Return

RenormalizeSpec ==
    InitRenormalize /\ [][NextRenormalize]_vars /\ WF_vars(NextRenormalize)

\* C27: renormalize terminates on every finite input: the loop is left with
\* a spacing of at least 0.001, or with an error once neighbor_n has reached
\* the sample size; and a call that returns has every input star in its
\* output.
EveryStarKept ==
    \A s \in Idx(args.filter1) :
        \E j \in Idx(result.val[1]) :
            /\ result.val[1][j] = args.filter1[s]
            /\ result.val[3][j] = args.filter2[s]

C27_RenormalizeTerminates ==
    /\ <>(pc \in {"done", "error"})
    /\ [](pc = "done" => (~TooClose(max_diff) /\ EveryStarKept))
    /\ [](pc = "error" =>
             \/ err = "ValueError"
             \/ neighbor_n >= Len(args.filter1))

C27_Witness ==
    /\ Returns("RN")
    /\ neighbor_n = 2 * InitialNeighbours
    /\ Len(args.filter1) > 2 * InitialNeighbours


\* C28: the caller's filter1, filter2, error1 and error2 are unchanged after
\* any call of shift_photometry_by_error,
\* MC_convex_hull_density_approximation or measure_fiducial_lines: shifted
\* photometry, colour, magnitude and the running density are always new
\* arrays, and the in-place update writes only into the density the function
\* allocated.
CallerArrays == {"filter1", "filter2", "error1", "error2"}

C28_AlwaysFreshArrays ==
    [][(op = "MC" \/ op = "MFL") =>
          (/\ args' = args
           /\ arrays'.written \cap CallerArrays = {}
           /\ arrays'.mag \notin CallerArrays)]_vars

\* C28 as amended: the arguments keep their values and nothing is written
\* into them; the magnitude made from shifted photometry is a new array,
\* the magnitude made from the arguments is one of them under another name.
C28_CallerArraysUntouched ==
    [][(op = "MC" \/ op = "MFL") =>
          (/\ args' = args
           /\ arrays'.written \cap CallerArrays = {}
           /\ (arrays'.mag \in CallerArrays) =>
                 \/ op = "MC" /\ ~Stochastic(args.mcruns)
                 \/ op = "MFL" /\ iRun' = 0 /\ pc' # "mfl_fit")]_vars

C28_Witness ==
    /\ Returns("MFL")
    /\ iRun = 2
    /\ ~args.cacheDensity
    /\ calls.hull = 3
    /\ arrays = [mag |-> "f1s", written |-> {"density"}]

====
